---- MODULE Spec2Model ----
(***************************************************************************)
(* A model of yapic_io's TiffConnector (src/yapic_io/tiff_connector.py):   *)
(* file pairing, dimension validation, label value mapping, split and      *)
(* filter_labeled, tile reads through the lru caches and probability map   *)
(* writes.                                                                 *)
(***************************************************************************)
EXTENDS Integers, Sequences, FiniteSets, TLC

VARIABLES
    mat,              \* a 4d (c, z, x, y) label matrix handed to unique_labels_per_channel
    original_labels,  \* list of sets, one per label channel
    label_mappings,   \* list of dicts returned by map_label_values
    pc,               \* position of the label mapping pipeline
    conns,            \* the TiffConnector instances alive, in order of creation
    origin,           \* per connector: how it was made (constructor, split, filter_labeled)
    lastCall,         \* the last call made on the API, with its arguments and outcome
    caches,           \* the lru_cache of every decorated method, oldest entry first
    probmaps          \* the probability map files under savepath

vars == <<mat, original_labels, label_mappings, pc, conns, origin, lastCall, caches, probmaps>>

mapVars == <<mat, original_labels, label_mappings, pc>>

\* ------------------------------------------------------------------ bounds
MaxCh  == 3    \* channels of the lists handed to map_label_values
MaxRaw == 3    \* largest raw label value in those lists
MatCh  == 2    \* channels of the matrices handed to unique_labels_per_channel
MatX   == 2    \* x extent of those matrices
MatMax == 2    \* largest value in those matrices

\* ------------------------------------------------------------------ arrays
\* numpy arrays: a shape (c, z, x, y) and a value per 0-based index
Idx(shape) == (0..(shape[1]-1)) \X (0..(shape[2]-1)) \X (0..(shape[3]-1)) \X (0..(shape[4]-1))

None == "None"

\* an array from its values in C order
FromFlat(shape, flat) ==
    [shape |-> shape,
     data  |-> [i \in Idx(shape) |->
                 flat[1 + ((i[1] * shape[2] + i[2]) * shape[3] + i[3]) * shape[4] + i[4]]]]

\* arr[i]
At(arr, i) == arr.data[i]

\* the array of the given shape holding F(i) at index i
MakeArray(shape, F(_)) == [shape |-> shape, data |-> [i \in Idx(shape) |-> F(i)]]

NoArray == [shape |-> <<0, 0, 0, 0>>, data |-> <<>>]

\* ------------------------------------------------------- label value mapper
\* sorted(labels_per_channel)
RECURSIVE sorted(_)
sorted(S) ==
    IF S = {} THEN <<>>
    ELSE LET m == CHOOSE x \in S : \A y \in S : x <= y
         IN <<m>> \o sorted(S \ {m})

\* { l: next(new_labels) for l in srt }, the counter standing at `nxt`
DictComprehension(srt, nxt) ==
    [l \in {srt[k] : k \in 1..Len(srt)} |->
        nxt + (CHOOSE k \in 1..Len(srt) : srt[k] = l) - 1]

RECURSIVE map_label_values_from(_, _)
map_label_values_from(labels, nxt) ==
    IF labels = <<>> THEN <<>>
    ELSE LET srt == sorted(Head(labels))
         IN <<DictComprehension(srt, nxt)>>
              \o map_label_values_from(Tail(labels), nxt + Len(srt))

\* a counter created anew for every channel
map_label_values_restart(labels) ==
    [ch \in 1..Len(labels) |-> DictComprehension(sorted(labels[ch]), 1)]

\* new_labels = itertools.count(1), shared by all channels
map_label_values(labels) == map_label_values_from(labels, 1)

\* np.unique(mat[ch])
np_unique(m, ch) == {At(m, i) : i \in {j \in Idx(m.shape) : j[1] = ch - 1}}

unique_labels_per_channel(m) == [ch \in 1..m.shape[1] |-> np_unique(m, ch) \ {0}]

\* ------------------------------------------------- label mapping pipeline
MatShapes == {<<c, 1, MatX, 1>> : c \in 1..MatCh}
Mats == UNION {[shape : {s}, data : [Idx(s) -> 0..MatMax]] : s \in MatShapes}

\* the lists of per-channel sets of positive raw label values
LabelLists == UNION {[1..n -> SUBSET (1..MaxRaw)] : n \in 0..MaxCh}

NoCall == [op |-> "none", raised |-> ""]

\* every lru_cache starts empty
NoCaches ==
    [get_tile |-> <<>>, get_label_tile |-> <<>>, load_image |-> <<>>,
     load_label_matrix |-> <<>>, original_label_values_for_all_images |-> <<>>,
     label_count_for_image |-> <<>>]

ConnIdle ==
    /\ conns = <<>>
    /\ origin = <<>>
    /\ lastCall = NoCall
    /\ caches = NoCaches
    /\ probmaps = <<>>

\* either a label matrix is at hand, or the caller brings the list of sets
InitMap ==
    /\ \/ mat \in Mats /\ original_labels = <<>> /\ pc = "mat"
       \/ mat = NoArray /\ original_labels \in LabelLists /\ pc = "labels"
    /\ label_mappings = <<>>
    /\ ConnIdle

UniqueLabelsPerChannel ==
    /\ pc = "mat"
    /\ original_labels' = unique_labels_per_channel(mat)
    /\ pc' = "labels"
    /\ UNCHANGED <<mat, label_mappings, conns, origin, lastCall, caches, probmaps>>

MapLabelValues ==
    /\ pc = "labels"
    /\ label_mappings' = map_label_values(original_labels)
    /\ pc' = "mapped"
    /\ UNCHANGED <<mat, original_labels, conns, origin, lastCall, caches, probmaps>>

NextMap == UniqueLabelsPerChannel \/ MapLabelValues

SpecMap == InitMap /\ [][NextMap]_vars

\* ------------------------------------------------------------------ C1
RECURSIVE SumCard(_)
SumCard(labels) == IF labels = <<>> THEN 0 ELSE Cardinality(Head(labels)) + SumCard(Tail(labels))

Ids(d) == {d[k] : k \in DOMAIN d}

\* the ids of all channels read in channel order (each channel by ascending raw value)
RECURSIVE IdsInOrder(_, _)
IdsInOrder(maps, labels) ==
    IF maps = <<>> THEN <<>>
    ELSE LET srt == sorted(Head(labels))
         IN [k \in 1..Len(srt) |-> Head(maps)[srt[k]]] \o IdsInOrder(Tail(maps), Tail(labels))

\* C1: map_label_values returns one mapping per channel, keyed by exactly that
\* channel's raw values; ids grow with the raw value inside a channel, no id is
\* shared by two channels, the ids read in channel order are 1, 2, ..., N, and
\* 0 is neither a key nor an id.
C1_MappingIsGlobalBijection ==
    pc = "mapped" =>
        /\ Len(label_mappings) = Len(original_labels)
        /\ \A ch \in 1..Len(label_mappings) :
              /\ DOMAIN label_mappings[ch] = original_labels[ch]
              /\ 0 \notin DOMAIN label_mappings[ch]
              /\ 0 \notin Ids(label_mappings[ch])
              /\ \A a, b \in DOMAIN label_mappings[ch] :
                    a < b => label_mappings[ch][a] < label_mappings[ch][b]
        /\ \A c1, c2 \in 1..Len(label_mappings) :
              c1 # c2 => Ids(label_mappings[c1]) \cap Ids(label_mappings[c2]) = {}
        /\ IdsInOrder(label_mappings, original_labels)
              = [k \in 1..SumCard(original_labels) |-> k]

C1_Witness ==
    /\ pc = "mapped"
    /\ Len(label_mappings) = 3
    /\ Cardinality(original_labels[1]) = 2
    /\ original_labels[2] = {}
    /\ original_labels[1] \cap original_labels[3] # {}

\* ------------------------------------------------------------------ disk
\* os.path.split on the files of the dataset
PathTable ==
    ("im/a.tif"   :> <<"im",  "a.tif">>)  @@ ("im/b.tif"   :> <<"im",  "b.tif">>)  @@
    ("im/c.tif"   :> <<"im",  "c.tif">>)  @@
    ("lbl/la.tif" :> <<"lbl", "la.tif">>) @@ ("lbl/lb.tif" :> <<"lbl", "lb.tif">>) @@
    ("lbl/lc.tif" :> <<"lbl", "lc.tif">>)

os_path_split(p) == PathTable[p]

os_path_join(d, b) == CHOOSE p \in DOMAIN PathTable : PathTable[p] = <<d, b>>

ImgPaths == {"im/a.tif", "im/b.tif", "im/c.tif"}
LblPaths == {"lbl/la.tif", "lbl/lb.tif", "lbl/lc.tif"}

\* the tiff files: pixel images and raw label images, each (c, z, x, y)
Disk ==
    ("im/a.tif"   :> FromFlat(<<1, 1, 2, 2>>, <<11, 12, 13, 14>>)) @@
    ("im/b.tif"   :> FromFlat(<<1, 1, 2, 2>>, <<21, 22, 23, 24>>)) @@
    ("im/c.tif"   :> FromFlat(<<2, 1, 1, 2>>, <<31, 32, 33, 34>>)) @@
    ("lbl/la.tif" :> FromFlat(<<2, 1, 2, 2>>, <<2, 2, 0, 3,  5, 0, 2, 0>>)) @@
    ("lbl/lb.tif" :> FromFlat(<<2, 1, 2, 2>>, <<1, 0, 0, 2,  0, 7, 7, 0>>)) @@
    ("lbl/lc.tif" :> FromFlat(<<1, 1, 2, 2>>, <<1, 1, 0, 0>>))

\* ip.get_tiff_image_dimensions and ip.import_tiff_image
get_tiff_image_dimensions(path) == Disk[path].shape

import_tiff_image(path) == Disk[path]

\* ------------------------------------------------------- python call values
PyInt(i)  == [type |-> "int", v |-> i]
PyBool(b) == [type |-> "bool", v |-> IF b THEN 1 ELSE 0]
PyConn(c) == [type |-> "TiffConnector", v |-> c]

Truthy(x) == x.v # 0

Returned(a)  == [raised |-> "", none |-> FALSE, val |-> a]
ReturnedNone == [raised |-> "", none |-> TRUE, val |-> NoArray]
Raised(e)    == [raised |-> e, none |-> FALSE, val |-> NoArray]

\* ------------------------------------------------------------ connector
\* zip(a, b)
Zip(a, b) ==
    [k \in 1..(IF Len(a) < Len(b) THEN Len(a) ELSE Len(b)) |-> [img |-> a[k], lbl |-> b[k]]]

image_dimensions(self, image_nr) ==
    get_tiff_image_dimensions(os_path_join(self.img_path, self.filenames[image_nr + 1].img))

label_matrix_dimensions(self, image_nr) ==
    get_tiff_image_dimensions(os_path_join(self.label_path, self.filenames[image_nr + 1].lbl))

\* the loop of check_label_matrix_dimensions from image i on; N_channels is
\* <<>> while it is None
RECURSIVE check_dimensions_from(_, _, _)
check_dimensions_from(self, i, N_channels) ==
    IF i >= Len(self.filenames) THEN "ok"
    ELSE IF self.filenames[i + 1].lbl = None
         THEN check_dimensions_from(self, i + 1, N_channels)
         ELSE LET img_dim == image_dimensions(self, i)
                  lbl_dim == label_matrix_dimensions(self, i)
                  ch      == lbl_dim[1]
                  N       == IF N_channels = <<>> THEN <<ch>> ELSE N_channels
              IN IF N[1] # ch THEN "ValueError"
                 ELSE IF Tail(lbl_dim) # Tail(img_dim) THEN "ValueError"
                 ELSE check_dimensions_from(self, i + 1, N)

\* the label channel count is never compared
RECURSIVE check_dimensions_spatial(_, _)
check_dimensions_spatial(self, i) ==
    IF i >= Len(self.filenames) THEN "ok"
    ELSE IF self.filenames[i + 1].lbl = None
         THEN check_dimensions_spatial(self, i + 1)
         ELSE IF Tail(label_matrix_dimensions(self, i)) # Tail(image_dimensions(self, i))
              THEN "ValueError"
              ELSE check_dimensions_spatial(self, i + 1)

check_label_matrix_dimensions_spatial(self) == check_dimensions_spatial(self, 0)

check_label_matrix_dimensions(self) == check_dimensions_from(self, 0, <<>>)

\* ut.assign_slice_by_slice: every channel translated through its dict
assign_slice_by_slice(assignment_dicts, vol) ==
    LET Assigned(i) ==
            LET ch == i[1] + 1
                v  == At(vol, i)
            IN IF ch <= Len(assignment_dicts) /\ v \in DOMAIN assignment_dicts[ch]
               THEN assignment_dicts[ch][v] ELSE v
    IN MakeArray(vol.shape, Assigned)

\* load_label_matrix(self, image_nr, original_labelvalues=False); the arguments
\* are python values, filenames[image_nr] needs an int
load_label_matrix(self, image_nr, original_labelvalues) ==
    IF image_nr.type # "int" THEN Raised("TypeError")
    ELSE IF image_nr.v < 0 \/ image_nr.v >= Len(self.filenames) THEN Raised("IndexError")
    ELSE LET label_filename == self.filenames[image_nr.v + 1].lbl
         IN IF label_filename = None THEN ReturnedNone
            ELSE LET label_image == import_tiff_image(os_path_join(self.label_path, label_filename))
                 IN IF Truthy(original_labelvalues) THEN Returned(label_image)
                    ELSE Returned(assign_slice_by_slice(self.labelvalue_mapping, label_image))

\* [l1.union(l2) for l1, l2 in zip(labels_per_channel, labels_per_im)]
UnionZip(a, b) ==
    [k \in 1..(IF Len(a) < Len(b) THEN Len(a) ELSE Len(b)) |-> a[k] \cup b[k]]

RECURSIVE original_labels_from(_, _, _)
original_labels_from(self, image_nr, labels_per_channel) ==
    IF image_nr >= Len(self.filenames) THEN labels_per_channel
    ELSE LET m == load_label_matrix(self, PyInt(image_nr), PyBool(TRUE))
         IN IF m.none THEN original_labels_from(self, image_nr + 1, labels_per_channel)
            ELSE LET labels_per_im == unique_labels_per_channel(m.val)
                 IN original_labels_from(self, image_nr + 1,
                        IF Len(labels_per_channel) = 0 THEN labels_per_im
                        ELSE UnionZip(labels_per_channel, labels_per_im))

original_label_values_for_all_images(self) == original_labels_from(self, 0, <<>>)

\* TiffConnector.__init__ on lists of filenames: the new object, or the error raised
TiffConnector(img_filepath, label_filepath, savepath) ==
    LET img_path      == IF Len(img_filepath) > 0
                         THEN os_path_split(img_filepath[1])[1] ELSE None
        img_filenames == [k \in 1..Len(img_filepath) |-> os_path_split(img_filepath[k])[2]]
        filtered_labels == SelectSeq(label_filepath, LAMBDA fname : fname # None)
        label_path    == IF Len(filtered_labels) > 0
                         THEN os_path_split(filtered_labels[1])[1] ELSE None
        lbl_filenames == [k \in 1..Len(label_filepath) |->
                            IF label_filepath[k] # None
                            THEN os_path_split(label_filepath[k])[2] ELSE None]
        self0 == [filenames          |-> Zip(img_filenames, lbl_filenames),
                  img_path           |-> img_path,
                  label_path         |-> label_path,
                  savepath           |-> savepath,
                  labelvalue_mapping |-> <<>>]
        warned == Len(img_filenames) # Len(lbl_filenames)
    IN IF check_label_matrix_dimensions(self0) # "ok"
       THEN [raised |-> "ValueError", warned |-> warned, self |-> self0]
       ELSE [raised |-> "", warned |-> warned,
             self |-> [self0 EXCEPT !.labelvalue_mapping =
                          map_label_values(original_label_values_for_all_images(self0))]]

image_count(self) == Len(self.filenames)

\* itertools.compress(data, selectors)
RECURSIVE compress(_, _)
compress(data, selectors) ==
    IF data = <<>> \/ selectors = <<>> THEN <<>>
    ELSE (IF Head(selectors) THEN <<Head(data)>> ELSE <<>>)
         \o compress(Tail(data), Tail(selectors))

\* the selectors handed on as they are
SameMask(mask) == mask

\* ~mask
Invert(mask) == [k \in 1..Len(mask) |-> ~mask[k]]

img_fnames(self, pairs) == [k \in 1..Len(pairs) |-> os_path_join(self.img_path, pairs[k].img)]

lbl_fnames(self, pairs) ==
    [k \in 1..Len(pairs) |->
        IF pairs[k].lbl # None THEN os_path_join(self.label_path, pairs[k].lbl) ELSE None]

\* split that leaves each half the mapping its constructor computed
split_own_mapping(self, mask) ==
    LET conn1 == TiffConnector(img_fnames(self, compress(self.filenames, mask)),
                               lbl_fnames(self, compress(self.filenames, mask)), self.savepath)
        conn2 == TiffConnector(img_fnames(self, compress(self.filenames, Invert(mask))),
                               lbl_fnames(self, compress(self.filenames, Invert(mask))), self.savepath)
    IN [raised |-> IF conn1.raised # "" THEN conn1.raised ELSE conn2.raised,
        conn1 |-> conn1.self, conn2 |-> conn2.self, made1 |-> conn1, made2 |-> conn2]

\* split: the two new connectors, or the error of a failed construction
split(self, mask) ==
    LET conn1 == TiffConnector(img_fnames(self, compress(self.filenames, mask)),
                               lbl_fnames(self, compress(self.filenames, mask)), self.savepath)
        conn2 == TiffConnector(img_fnames(self, compress(self.filenames, Invert(mask))),
                               lbl_fnames(self, compress(self.filenames, Invert(mask))), self.savepath)
    IN IF conn1.raised # "" \/ conn2.raised # ""
       THEN [raised |-> IF conn1.raised # "" THEN conn1.raised ELSE conn2.raised,
             conn1 |-> conn1.self, conn2 |-> conn2.self, made1 |-> conn1, made2 |-> conn2]
       ELSE [raised |-> "",
             conn1 |-> [conn1.self EXCEPT !.labelvalue_mapping = self.labelvalue_mapping],
             conn2 |-> [conn2.self EXCEPT !.labelvalue_mapping = self.labelvalue_mapping],
             made1 |-> conn1, made2 |-> conn2]

\* filter_labeled: the new connector as its constructor leaves it
filter_labeled(self) ==
    LET labeled == SelectSeq(self.filenames, LAMBDA pair : pair.lbl # None)
    IN TiffConnector(img_fnames(self, labeled), lbl_fnames(self, labeled), self.savepath)

\* ------------------------------------------------------------ lru caches
\* the capacities of the caches, scaled down from maxsize=5000, 20 and 1500
TileCacheSize   == 2    \* get_tile, get_label_tile
MatrixCacheSize == 1    \* load_image, load_label_matrix
CountCacheSize  == 2    \* label_count_for_image
OriginalLabelsCacheSize == 1

CacheHas(cache, key) == \E k \in 1..Len(cache) : cache[k].key = key

CachePos(cache, key) == CHOOSE k \in 1..Len(cache) : cache[k].key = key

Without(cache, k) == SubSeq(cache, 1, k - 1) \o SubSeq(cache, k + 1, Len(cache))

\* functools.lru_cache around a call with the arguments `key`: the cache after the
\* call and what the call returns; `result` is what the wrapped method returns
\* when it is run (it is run on a miss only, and an exception is not stored)
lru_cache(cache, maxsize, key, result) ==
    IF CacheHas(cache, key)
    THEN LET k == CachePos(cache, key)
         IN [cache |-> Append(Without(cache, k), cache[k]), ret |-> cache[k].val]
    ELSE IF result.raised # "" THEN [cache |-> cache, ret |-> result]
    ELSE LET grown == Append(cache, [key |-> key, val |-> result])
         IN [cache |-> IF Len(grown) > maxsize THEN Tail(grown) ELSE grown, ret |-> result]

\* how original_labelvalues reaches load_label_matrix: left out, or by keyword
ByDefault == [kind |-> "default", v |-> 0]
ByKeyword(b) == [kind |-> "keyword", v |-> IF b THEN 1 ELSE 0]
Positional(x) == [kind |-> "positional:" \o x.type, v |-> x.v]

\* the cache keys: the arguments of the call, self included
load_label_matrix_key(c, image_nr, how) == <<c, image_nr, how>>

\* the key leaves self out
tile_key_without_self(c, image_nr, pos, size) == <<0, image_nr, pos, size>>

get_tile_key(c, image_nr, pos, size) == <<c, image_nr, pos, size>>

\* the cached calls the constructor of connector c makes through
\* original_label_values_for_all_images, image by image
RECURSIVE constructor_loads_from(_, _, _, _)
constructor_loads_from(cache, c, self, image_nr) ==
    IF image_nr >= Len(self.filenames) THEN cache
    ELSE constructor_loads_from(
            lru_cache(cache, MatrixCacheSize,
                      load_label_matrix_key(c, PyInt(image_nr), ByKeyword(TRUE)),
                      load_label_matrix(self, PyInt(image_nr), PyBool(TRUE))).cache,
            c, self, image_nr + 1)

\* the caches after connector c has been constructed as `made`
ConstructorCaches(cs, c, made) ==
    IF made.raised # "" THEN cs
    ELSE [cs EXCEPT
            !.load_label_matrix = constructor_loads_from(@, c, made.self, 0),
            !.original_label_values_for_all_images =
                lru_cache(@, OriginalLabelsCacheSize, <<c>>,
                          [raised |-> "", none |-> FALSE,
                           val |-> original_label_values_for_all_images(made.self)]).cache]

\* ------------------------------------------------- connector life cycle
MaxFiles == 2    \* longest filename list handed to the constructor
MaxConns == 4    \* connectors created in one run

SeqUpTo(S, n) == UNION {[1..k -> S] : k \in 0..n}

\* the filename lists a caller hands over: no file is listed twice
ImgLists ==
    {s \in SeqUpTo(ImgPaths, MaxFiles) : \A j, k \in 1..Len(s) : s[j] = s[k] => j = k}

LblLists ==
    {s \in SeqUpTo(LblPaths \cup {None}, MaxFiles) :
        \A j, k \in 1..Len(s) : s[j] = s[k] => (j = k \/ s[j] = None)}

SavePaths == {None, "out"}

\* split's fraction, in percent
Fractions == {0, 50, 100}

\* np.random.choice([True, False], size=N, p=[1-fraction, fraction]): the masks a
\* seed can draw
Masks(N, fraction) ==
    {m \in [1..N -> BOOLEAN] :
        /\ fraction = 0   => \A k \in 1..N : m[k]
        /\ fraction = 100 => \A k \in 1..N : ~m[k]}

Made(via, parent, mask) == [via |-> via, parent |-> parent, mask |-> mask]

MapIdle ==
    /\ mat = NoArray
    /\ original_labels = <<>>
    /\ label_mappings = <<>>
    /\ pc = "idle"

Init == MapIdle /\ ConnIdle

\* TiffConnector(img_filepath, label_filepath, savepath) called by the user
Construct(img_filepath, label_filepath, savepath) ==
    /\ lastCall.op = "none"
    /\ \E r \in {TiffConnector(img_filepath, label_filepath, savepath)} :
          /\ lastCall' = [op |-> "TiffConnector", raised |-> r.raised,
                          img_filepath |-> img_filepath, label_filepath |-> label_filepath,
                          warned |-> r.warned]
          /\ IF r.raised = ""
             THEN /\ conns' = Append(conns, r.self)
                  /\ origin' = Append(origin, Made("TiffConnector", 0, <<>>))
             ELSE UNCHANGED <<conns, origin>>
          /\ caches' = ConstructorCaches(caches, Len(conns) + 1, r)
    /\ UNCHANGED <<mapVars, probmaps>>

Split(c, fraction, mask) ==
    /\ c \in 1..Len(conns)
    /\ Len(conns) + 2 <= MaxConns
    /\ mask \in Masks(Len(conns[c].filenames), fraction)
    /\ \E r \in {split(conns[c], mask)} :
          /\ lastCall' = [op |-> "split", raised |-> r.raised, conn |-> c,
                          fraction |-> fraction, mask |-> mask,
                          warned1 |-> r.raised = "" /\ Len(r.conn1.filenames) = 0,
                          warned2 |-> r.raised = "" /\ Len(r.conn2.filenames) = 0]
          /\ IF r.raised = ""
             THEN /\ conns' = conns \o <<r.conn1, r.conn2>>
                  /\ origin' = origin \o <<Made("split1", c, mask), Made("split2", c, mask)>>
             ELSE UNCHANGED <<conns, origin>>
          /\ caches' = IF r.made1.raised # "" THEN caches
                        ELSE ConstructorCaches(ConstructorCaches(caches, Len(conns) + 1, r.made1),
                                               Len(conns) + 2, r.made2)
    /\ UNCHANGED <<mapVars, probmaps>>

FilterLabeled(c) ==
    /\ c \in 1..Len(conns)
    /\ Len(conns) + 1 <= MaxConns
    /\ \E r \in {filter_labeled(conns[c])} :
          /\ lastCall' = [op |-> "filter_labeled", raised |-> r.raised, conn |-> c]
          /\ IF r.raised = ""
             THEN /\ conns' = Append(conns, r.self)
                  /\ origin' = Append(origin, Made("filter_labeled", c, <<>>))
             ELSE UNCHANGED <<conns, origin>>
          /\ caches' = ConstructorCaches(caches, Len(conns) + 1, r)
    /\ UNCHANGED <<mapVars, probmaps>>

Next ==
    \/ /\ lastCall.op = "none"
       /\ \E imgs \in ImgLists, lbls \in LblLists : Construct(imgs, lbls, None)
    \/ \E c \in 1..Len(conns), fraction \in Fractions :
          \E mask \in Masks(Len(conns[c].filenames), fraction) : Split(c, fraction, mask)
    \/ \E c \in 1..Len(conns) : FilterLabeled(c)

Spec == Init /\ [][Next]_vars

\* ------------------------------------------------------------------ C2
\* the image of the parent that image i of a split half was taken from
ParentIndex(o, i) ==
    LET sel == {k \in 1..Len(o.mask) : IF o.via = "split1" THEN o.mask[k] ELSE ~o.mask[k]}
    IN (CHOOSE k \in sel : Cardinality({x \in sel : x < k}) = i) - 1

IsSplitHalf(c) == origin[c].via \in {"split1", "split2"}

\* C2: both connectors returned by split hold the parent's labelvalue_mapping,
\* whatever labels their own files contain, and the mapped label matrix of every
\* labelled image of a half is the one the parent loads for that image.
C2_SplitSharesMapping ==
    \A c \in 1..Len(conns) :
        IsSplitHalf(c) =>
            LET parent == conns[origin[c].parent]
            IN /\ conns[c].labelvalue_mapping = parent.labelvalue_mapping
               /\ \A i \in 0..(image_count(conns[c]) - 1) :
                     load_label_matrix(conns[c], PyInt(i), PyBool(FALSE))
                       = load_label_matrix(parent, PyInt(ParentIndex(origin[c], i)), PyBool(FALSE))

C2_Witness ==
    \E c \in 1..Len(conns) :
        /\ IsSplitHalf(c)
        /\ \E i \in 0..(image_count(conns[c]) - 1) : conns[c].filenames[i + 1].lbl # None
        /\ map_label_values(original_label_values_for_all_images(conns[c]))
             # conns[origin[c].parent].labelvalue_mapping

\* ------------------------------------------------------------------ C3
\* C3: a connector made by filter_labeled carries its parent's labelvalue_mapping,
\* so every connector derived from the root by split and filter_labeled has the
\* root's labelvalue_mapping.
C3_FilterKeepsMapping ==
    \A c \in 1..Len(conns) :
        /\ origin[c].via = "filter_labeled" =>
              conns[c].labelvalue_mapping = conns[origin[c].parent].labelvalue_mapping
        /\ conns[c].labelvalue_mapping = conns[1].labelvalue_mapping

\* ------------------------------------------------------------------ C4
\* the pairs the constructor is given, by position
GivenPairs(call) ==
    {k \in 1..Len(call.img_filepath) : k <= Len(call.label_filepath)}

Labelled(call) == {k \in GivenPairs(call) : call.label_filepath[k] # None}

DimensionsFit(call) ==
    /\ \A k \in Labelled(call) :
          Tail(Disk[call.label_filepath[k]].shape) = Tail(Disk[call.img_filepath[k]].shape)
    /\ \A j, k \in Labelled(call) :
          Disk[call.label_filepath[j]].shape[1] = Disk[call.label_filepath[k]].shape[1]

\* C4: the constructor returns a connector exactly when every labelled image
\* has a label of the image's (z, x, y) dimensions and all labels have the same
\* channel count; otherwise it raises ValueError and no connector exists;
\* unlabelled images play no part.
C4_ConstructorValidatesDimensions ==
    lastCall.op = "TiffConnector" =>
        /\ (lastCall.raised = "") <=> DimensionsFit(lastCall)
        /\ lastCall.raised # "" => lastCall.raised = "ValueError" /\ conns = <<>>
        /\ lastCall.raised = "" => Len(conns) = 1

C4_Witness ==
    /\ lastCall.op = "TiffConnector"
    /\ lastCall.raised = "ValueError"
    /\ conns = <<>>
    /\ \A k \in Labelled(lastCall) :
          Tail(Disk[lastCall.label_filepath[k]].shape) = Tail(Disk[lastCall.img_filepath[k]].shape)

\* ------------------------------------------------------------------ C6
\* C6: a connector built from filename lists has one FilePair per supplied image,
\* in the supplied order, pair i holding image i and label entry i (or no label),
\* also when the two lists differ in length; image_count() is the number of
\* supplied images.
C6_EveryImageIsPaired ==
    (lastCall.op = "TiffConnector" /\ lastCall.raised = "") =>
        /\ image_count(conns[1]) = Len(lastCall.img_filepath)
        /\ \A k \in 1..Len(conns[1].filenames) :
              /\ conns[1].filenames[k].img = os_path_split(lastCall.img_filepath[k])[2]
              /\ conns[1].filenames[k].lbl =
                    IF k <= Len(lastCall.label_filepath) /\ lastCall.label_filepath[k] # None
                    THEN os_path_split(lastCall.label_filepath[k])[2] ELSE None

\* ------------------------------------------------------------------ C7
Nth(I, j) == CHOOSE k \in I : Cardinality({x \in I : x < k}) = j - 1

\* the pairs of `pairs` at the positions I, in their order
Restrict(pairs, I) == [j \in 1..Cardinality(I) |-> pairs[Nth(I, j)]]

\* C7: split returns two connectors, also when one comes out empty; their
\* FilePair lists are order-preserving subsequences of the parent's list over two
\* disjoint position sets that cover the parent's list, every image with the
\* label entry it had in the parent.
C7_SplitPartitions ==
    /\ lastCall.op = "split" =>
          /\ lastCall.raised = ""
          /\ Len(conns) >= 3
          /\ origin[Len(conns)] = Made("split2", lastCall.conn, lastCall.mask)
          /\ origin[Len(conns) - 1] = Made("split1", lastCall.conn, lastCall.mask)
    /\ \A c \in 1..Len(conns) :
          origin[c].via = "split1" =>
              LET parent == conns[origin[c].parent].filenames
                  N      == Len(parent)
              IN /\ image_count(conns[c]) + image_count(conns[c + 1]) = N
                 /\ \E I1 \in SUBSET (1..N) :
                       /\ conns[c].filenames = Restrict(parent, I1)
                       /\ conns[c + 1].filenames = Restrict(parent, (1..N) \ I1)
                       /\ origin[c].mask = [k \in 1..N |-> k \in I1]

C7_Witness ==
    /\ lastCall.op = "split"
    /\ \E k \in 1..Len(lastCall.mask) : lastCall.mask[k]
    /\ \E k \in 1..Len(lastCall.mask) : ~lastCall.mask[k]
    /\ \E k \in 1..Len(conns[lastCall.conn].filenames) :
          conns[lastCall.conn].filenames[k].lbl = None
    /\ \E k \in 1..Len(conns[lastCall.conn].filenames) :
          conns[lastCall.conn].filenames[k].lbl # None

\* ------------------------------------------------ probability map writes
MaxPuts == 3    \* blocks written to the probability maps in one run

\* add_to_filename(image_filename, 'class_' + str(label_value))
add_to_filename(image_filename, label_value) == <<image_filename, "class", label_value>>

\* the savepath is joined without being looked at
get_probmap_path_unchecked(self, image_nr, label_value) ==
    [raised |-> "",
     path |-> <<self.savepath>> \o add_to_filename(self.filenames[image_nr + 1].img, label_value)]

get_probmap_path(self, image_nr, label_value) ==
    IF self.savepath = None THEN [raised |-> "ValueError", path |-> <<>>]
    ELSE [raised |-> "",
          path |-> <<self.savepath>> \o add_to_filename(self.filenames[image_nr + 1].img, label_value)]

\* ip.init_empty_tiff_image: an empty volume in place of whatever was there;
\* inits counts how often the path was initialized in this run
init_empty_tiff_image(files, path, x_shape, y_shape, z_size) ==
    (path :> [shape  |-> <<z_size, x_shape, y_shape>>,
              blocks |-> <<>>,
              inits  |-> IF path \in DOMAIN files THEN files[path].inits + 1 ELSE 1])
    @@ files

\* ip.add_vals_to_tiff_image: the block written into the volume at pos_zxy
add_vals_to_tiff_image(files, path, pos_zxy, pixels) ==
    [files EXCEPT ![path].blocks = Append(@, [pos |-> pos_zxy, pixels |-> pixels])]

\* the image is emptied on every call
must_init_always(files, out_path, overwrite) == TRUE

\* not os.path.isfile(out_path) or overwrite
must_init(files, out_path, overwrite) == out_path \notin DOMAIN files \/ overwrite

init_probmap_image(files, self, image_nr, label_value, overwrite) ==
    LET out  == get_probmap_path(self, image_nr, label_value)
        dims == image_dimensions(self, image_nr)
    IN IF out.raised # "" THEN [raised |-> out.raised, path |-> out.path, files |-> files]
       ELSE [raised |-> "", path |-> out.path,
             files |-> IF must_init(files, out.path, overwrite)
                       THEN init_empty_tiff_image(files, out.path, dims[3], dims[4], dims[2])
                       ELSE files]

\* put_tile: the error raised, the path written and the files afterwards
put_tile(files, self, pixels, pos_zxy, image_nr, label_value) ==
    IF Len(pos_zxy) # 3 THEN [raised |-> "ValueError", path |-> <<>>, files |-> files]
    ELSE IF Len(pixels.shape) # 3 THEN [raised |-> "ValueError", path |-> <<>>, files |-> files]
    ELSE LET init == init_probmap_image(files, self, image_nr, label_value, FALSE)
         IN IF init.raised # "" THEN init
            ELSE [raised |-> "", path |-> init.path,
                  files |-> add_vals_to_tiff_image(init.files, init.path, pos_zxy, pixels)]

RECURSIVE SumBlocks(_, _)
SumBlocks(files, paths) ==
    IF paths = {} THEN 0
    ELSE LET p == CHOOSE q \in paths : TRUE
         IN Len(files[p].blocks) + SumBlocks(files, paths \ {p})

PixelBlocks == {[shape |-> <<1, 1, 1>>, v |-> 1], [shape |-> <<1, 1>>, v |-> 1]}
Positions   == {<<0, 0, 0>>, <<0, 1, 0>>, <<0, 0>>}
LabelValues == {1, 2}

PutTile(c, pixels, pos_zxy, image_nr, label_value) ==
    /\ c \in 1..Len(conns)
    /\ image_nr \in 0..(image_count(conns[c]) - 1)
    /\ SumBlocks(probmaps, DOMAIN probmaps) < MaxPuts
    /\ \E r \in {put_tile(probmaps, conns[c], pixels, pos_zxy, image_nr, label_value)} :
          /\ probmaps' = r.files
          /\ lastCall' = [op |-> "put_tile", raised |-> r.raised, conn |-> c,
                          pixels |-> pixels, pos_zxy |-> pos_zxy, image_nr |-> image_nr,
                          label_value |-> label_value, path |-> r.path]
    /\ UNCHANGED <<mapVars, conns, origin, caches>>

\* a probability map left under savepath by an earlier run
OldProbmap ==
    (<<"out">> \o add_to_filename("a.tif", 1)) :>
        [shape |-> <<1, 2, 2>>, inits |-> 0,
         blocks |-> <<[pos |-> <<0, 0, 0>>, pixels |-> [shape |-> <<1, 1, 1>>, v |-> 1]]>>]

\* the datasets the maps are written for: unlabelled images
PutDatasets == {<<"im/a.tif">>, <<"im/a.tif", "im/b.tif">>}

InitPut ==
    /\ MapIdle
    /\ conns = <<>>
    /\ origin = <<>>
    /\ lastCall = NoCall
    /\ caches = NoCaches
    /\ probmaps \in {<<>>, OldProbmap}

NextPut ==
    \/ /\ lastCall.op = "none"
       /\ \E imgs \in PutDatasets, savepath \in SavePaths :
             Construct(imgs, [k \in 1..Len(imgs) |-> None], savepath)
    \/ \E c \in 1..Len(conns), pixels \in PixelBlocks, pos_zxy \in Positions,
          label_value \in LabelValues :
          \E image_nr \in 0..(image_count(conns[c]) - 1) :
             PutTile(c, pixels, pos_zxy, image_nr, label_value)

SpecPut == InitPut /\ [][NextPut]_vars

\* ------------------------------------------------------------------ C5
Written(call) == [pos |-> call.pos_zxy, pixels |-> call.pixels]

\* C5: a put_tile call never re-initializes an output image that exists: every
\* file keeps its init count and its earlier blocks; a successful call appends
\* exactly its own block to its own file, and creates that file (one init, one
\* block) only when it did not exist; a failed call changes no file; no cache
\* is read or written.
C5_PutTileNeverReinitializes ==
    [][lastCall'.op = "put_tile" =>
        /\ \A p \in DOMAIN probmaps :
              /\ p \in DOMAIN probmaps'
              /\ probmaps'[p].inits = probmaps[p].inits
              /\ probmaps'[p].blocks =
                    IF lastCall'.raised = "" /\ p = lastCall'.path
                    THEN Append(probmaps[p].blocks, Written(lastCall'))
                    ELSE probmaps[p].blocks
        /\ \A p \in (DOMAIN probmaps') \ (DOMAIN probmaps) :
              /\ lastCall'.raised = "" /\ p = lastCall'.path
              /\ probmaps'[p].inits = 1
              /\ probmaps'[p].blocks = <<Written(lastCall')>>
        /\ lastCall'.raised = "" => lastCall'.path \in DOMAIN probmaps'
        /\ caches' = caches
    ]_vars

C5_Witness ==
    /\ lastCall.op = "put_tile"
    /\ lastCall.raised = ""
    /\ probmaps[lastCall.path].inits = 1
    /\ Len(probmaps[lastCall.path].blocks) = 3

\* ------------------------------------------------------------ tile reads
\* arr[get_tile_meshgrid(arr.shape, pos, size)]: the region [pos, pos + size) of
\* the last three axes, the leading axis taken whole
Tile(arr, pos, size) ==
    LET Picked(i) == At(arr, <<i[1], i[2] + pos[1], i[3] + pos[2], i[4] + pos[3]>>)
    IN MakeArray(<<arr.shape[1], size[1], size[2], size[3]>>, Picked)

load_image(self, image_nr) ==
    Returned(import_tiff_image(os_path_join(self.img_path, self.filenames[image_nr + 1].img)))

\* load_image behind its lru_cache
cached_load_image(cs, c, self, image_nr) ==
    LET r == lru_cache(cs.load_image, MatrixCacheSize, <<c, image_nr>>, load_image(self, image_nr))
    IN [caches |-> [cs EXCEPT !.load_image = r.cache], ret |-> r.ret]

\* get_tile behind its lru_cache: on a miss the image comes through load_image's cache
cached_get_tile(cs, c, self, image_nr, pos, size) ==
    LET key == get_tile_key(c, image_nr, pos, size)
        hit == CacheHas(cs.get_tile, key)
        im  == cached_load_image(cs, c, self, image_nr)
        r   == lru_cache(cs.get_tile, TileCacheSize, key, Returned(Tile(im.ret.val, pos, size)))
    IN [caches |-> [(IF hit THEN cs ELSE im.caches) EXCEPT !.get_tile = r.cache],
        ret    |-> r.ret]

\* pos and size lie fully inside dims = (c, z, x, y)
Inside(dims, pos, size) ==
    \A k \in 1..3 : pos[k] >= 0 /\ size[k] >= 1 /\ pos[k] + size[k] <= dims[k + 1]

\* the tiles asked for
TileRequests ==
    {[pos |-> <<0, 0, 0>>, size |-> <<1, 1, 1>>],
     [pos |-> <<0, 1, 0>>, size |-> <<1, 1, 1>>],
     [pos |-> <<0, 0, 0>>, size |-> <<1, 2, 2>>]}

GetTile(c, image_nr, pos, size) ==
    /\ c \in 1..Len(conns)
    /\ image_nr \in 0..(image_count(conns[c]) - 1)
    /\ Inside(image_dimensions(conns[c], image_nr), pos, size)
    /\ \E r \in {cached_get_tile(caches, c, conns[c], image_nr, pos, size)} :
          /\ caches' = r.caches
          /\ lastCall' = [op |-> "get_tile", raised |-> r.ret.raised, conn |-> c,
                          image_nr |-> image_nr, pos |-> pos, size |-> size, ret |-> r.ret.val]
    /\ UNCHANGED <<mapVars, conns, origin, probmaps>>

LoadImage(c, image_nr) ==
    /\ c \in 1..Len(conns)
    /\ image_nr \in 0..(image_count(conns[c]) - 1)
    /\ \E r \in {cached_load_image(caches, c, conns[c], image_nr)} :
          /\ caches' = r.caches
          /\ lastCall' = [op |-> "load_image", raised |-> r.ret.raised, conn |-> c,
                          image_nr |-> image_nr, ret |-> r.ret.val]
    /\ UNCHANGED <<mapVars, conns, origin, probmaps>>

\* the datasets read tile by tile
TileDatasets == {<<"im/a.tif", "im/b.tif">>}

NextTile ==
    \/ /\ lastCall.op = "none"
       /\ \E imgs \in TileDatasets : Construct(imgs, [k \in 1..Len(imgs) |-> None], None)
    \/ /\ Len(conns) = 1
       /\ \E mask \in Masks(Len(conns[1].filenames), 50) : Split(1, 50, mask)
    \/ \E c \in 1..Len(conns), t \in TileRequests :
          \E image_nr \in 0..(image_count(conns[c]) - 1) : GetTile(c, image_nr, t.pos, t.size)
    \/ \E c \in 1..Len(conns) :
          \E image_nr \in 0..(image_count(conns[c]) - 1) : LoadImage(c, image_nr)

SpecTile == Init /\ [][NextTile]_vars

\* ------------------------------------------------------------------ C8
\* the file behind image image_nr of connector c
ImageFile(c, image_nr) == Disk[os_path_join(conns[c].img_path, conns[c].filenames[image_nr + 1].img)]

\* C8: whatever was asked before, on this or on another connector, get_tile(i,
\* pos, size) returns the region [pos, pos + size) of all channels of image i of
\* the connector it is called on, its last three axes being size.
C8_GetTileReturnsRequestedRegion ==
    lastCall.op = "get_tile" =>
        LET im == ImageFile(lastCall.conn, lastCall.image_nr)
        IN /\ lastCall.raised = ""
           /\ lastCall.ret.shape = <<im.shape[1]>> \o lastCall.size
           /\ \A i \in Idx(lastCall.ret.shape) :
                 At(lastCall.ret, i) =
                    At(im, <<i[1], i[2] + lastCall.pos[1], i[3] + lastCall.pos[2],
                             i[4] + lastCall.pos[3]>>)

\* a tile served from the cache after its image was evicted, while the same
\* request of another connector, with other pixels, is cached too
C8_Witness ==
    /\ lastCall.op = "get_tile"
    /\ ~CacheHas(caches.load_image, <<lastCall.conn, lastCall.image_nr>>)
    /\ \E k \in 1..Len(caches.get_tile) :
          /\ caches.get_tile[k].key[1] # lastCall.conn
          /\ caches.get_tile[k].key[2] = lastCall.image_nr
          /\ caches.get_tile[k].key[3] = lastCall.pos
          /\ caches.get_tile[k].key[4] = lastCall.size
          /\ caches.get_tile[k].val.val # lastCall.ret

\* ------------------------------------------------------------ label reads
\* load_label_matrix behind its lru_cache
cached_load_label_matrix(cs, c, self, image_nr, how, original_labelvalues) ==
    LET r == lru_cache(cs.load_label_matrix, MatrixCacheSize,
                       load_label_matrix_key(c, image_nr, how),
                       load_label_matrix(self, image_nr, original_labelvalues))
    IN [caches |-> [cs EXCEPT !.load_label_matrix = r.cache], ret |-> r.ret]

\* the call as get_label_tile writes it: self.load_label_matrix(self, image_nr),
\* the connector lands in image_nr and image_nr in original_labelvalues
load_label_matrix_of_self(cs, c, self, image_nr) ==
    cached_load_label_matrix(cs, c, self, PyConn(c), Positional(PyInt(image_nr)), PyInt(image_nr))

\* the call self.load_label_matrix(image_nr)
load_label_matrix_of_image(cs, c, self, image_nr) ==
    cached_load_label_matrix(cs, c, self, PyInt(image_nr), ByDefault, PyBool(FALSE))

get_label_tile_key(c, image_nr, pos, size) == <<c, image_nr, pos, size>>

\* get_label_tile behind its lru_cache
cached_get_label_tile(cs, c, self, image_nr, pos, size) ==
    LET key == get_label_tile_key(c, image_nr, pos, size)
        hit == CacheHas(cs.get_label_tile, key)
        labelmat == load_label_matrix_of_self(cs, c, self, image_nr)
        result == IF labelmat.ret.raised # "" THEN Raised(labelmat.ret.raised)
                  ELSE IF labelmat.ret.none THEN Raised("AttributeError")
                  ELSE Returned(Tile(labelmat.ret.val, pos, size))
        r == lru_cache(cs.get_label_tile, TileCacheSize, key, result)
    IN [caches |-> [(IF hit THEN cs ELSE labelmat.caches) EXCEPT !.get_label_tile = r.cache],
        ret    |-> r.ret]

\* three-dimensional (z, x, y) arrays
Idx3(shape) == (0..(shape[1]-1)) \X (0..(shape[2]-1)) \X (0..(shape[3]-1))

\* (labelmat == label_value)[0]: the first channel alone
first_channel_only(labelmat, label_value) ==
    LET shape == Tail(labelmat.shape)
    IN [shape |-> shape,
        data  |-> [i \in Idx3(shape) |-> At(labelmat, <<0>> \o i) = label_value]]

\* (labelmat == label_value).any(axis=0)
any_axis0(labelmat, label_value) ==
    LET shape == Tail(labelmat.shape)
    IN [shape |-> shape,
        data  |-> [i \in Idx3(shape) |->
                    \E ch \in 0..(labelmat.shape[1] - 1) :
                        At(labelmat, <<ch>> \o i) = label_value]]

\* boolmat_3d[get_tile_meshgrid(boolmat_3d.shape, pos_zxy, size_zxy)]
Tile3(arr, pos, size) ==
    [shape |-> size,
     data  |-> [i \in Idx3(size) |-> arr.data[<<i[1] + pos[1], i[2] + pos[2], i[3] + pos[3]>>]]]

label_tile(cs, c, self, image_nr, pos_zxy, size_zxy, label_value) ==
    LET labelmat == load_label_matrix_of_image(cs, c, self, image_nr)
    IN [caches |-> labelmat.caches,
        ret |-> IF labelmat.ret.raised # "" THEN Raised(labelmat.ret.raised)
                ELSE IF labelmat.ret.none THEN Raised("AttributeError")
                ELSE Returned(Tile3(any_axis0(labelmat.ret.val, label_value), pos_zxy, size_zxy))]

\* np.count_nonzero(mat == l)
count_nonzero_eq(m, l) == Cardinality({i \in Idx(m.shape) : At(m, i) = l})

\* { l: np.count_nonzero(mat==l) for l in labels if l > 0 }
label_count(m) ==
    [l \in {At(m, i) : i \in Idx(m.shape)} \ {0} |-> count_nonzero_eq(m, l)]

\* label_count_for_image behind its lru_cache
cached_label_count_for_image(cs, c, self, image_nr) ==
    LET key == <<c, image_nr>>
        hit == CacheHas(cs.label_count_for_image, key)
        m   == load_label_matrix_of_image(cs, c, self, image_nr)
        result == IF m.ret.raised # "" THEN Raised(m.ret.raised)
                  ELSE IF m.ret.none THEN [raised |-> "", none |-> TRUE, val |-> <<>>]
                  ELSE [raised |-> "", none |-> FALSE, val |-> label_count(m.ret.val)]
        r == lru_cache(cs.label_count_for_image, CountCacheSize, key, result)
    IN [caches |-> [(IF hit THEN cs ELSE m.caches) EXCEPT !.label_count_for_image = r.cache],
        ret    |-> r.ret]

IsLabelled(c, image_nr) == conns[c].filenames[image_nr + 1].lbl # None

GetLabelTile(c, image_nr, pos, size) ==
    /\ c \in 1..Len(conns)
    /\ image_nr \in 0..(image_count(conns[c]) - 1)
    /\ IsLabelled(c, image_nr)
    /\ Inside(label_matrix_dimensions(conns[c], image_nr), pos, size)
    /\ \E r \in {cached_get_label_tile(caches, c, conns[c], image_nr, pos, size)} :
          /\ caches' = r.caches
          /\ lastCall' = [op |-> "get_label_tile", raised |-> r.ret.raised, conn |-> c,
                          image_nr |-> image_nr, pos |-> pos, size |-> size, ret |-> r.ret.val]
    /\ UNCHANGED <<mapVars, conns, origin, probmaps>>

LabelTile(c, image_nr, pos, size, label_value) ==
    /\ c \in 1..Len(conns)
    /\ image_nr \in 0..(image_count(conns[c]) - 1)
    /\ IsLabelled(c, image_nr)
    /\ Inside(label_matrix_dimensions(conns[c], image_nr), pos, size)
    /\ \E r \in {label_tile(caches, c, conns[c], image_nr, pos, size, label_value)} :
          /\ caches' = r.caches
          /\ lastCall' = [op |-> "label_tile", raised |-> r.ret.raised, conn |-> c,
                          image_nr |-> image_nr, pos |-> pos, size |-> size,
                          label_value |-> label_value, ret |-> r.ret.val]
    /\ UNCHANGED <<mapVars, conns, origin, probmaps>>

LabelCountForImage(c, image_nr) ==
    /\ c \in 1..Len(conns)
    /\ image_nr \in 0..(image_count(conns[c]) - 1)
    /\ \E r \in {cached_label_count_for_image(caches, c, conns[c], image_nr)} :
          /\ caches' = r.caches
          /\ lastCall' = [op |-> "label_count_for_image", raised |-> r.ret.raised, conn |-> c,
                          image_nr |-> image_nr, none |-> r.ret.none, ret |-> r.ret.val]
    /\ UNCHANGED <<mapVars, conns, origin, probmaps>>

\* the labelled datasets read
LabelDatasets ==
    {[img |-> <<"im/a.tif", "im/b.tif">>, lbl |-> <<"lbl/la.tif", "lbl/lb.tif">>]}

\* the mapped label values asked for
QueryLabels == {2, 5}

NextLabel ==
    \/ /\ lastCall.op = "none"
       /\ \E d \in LabelDatasets : Construct(d.img, d.lbl, None)
    \/ /\ Len(conns) = 1
       /\ \E mask \in Masks(Len(conns[1].filenames), 50) : Split(1, 50, mask)
    \/ \E c \in 1..Len(conns), t \in TileRequests :
          \E image_nr \in 0..(image_count(conns[c]) - 1) : GetLabelTile(c, image_nr, t.pos, t.size)
    \/ \E c \in 1..Len(conns), t \in TileRequests, label_value \in QueryLabels :
          \E image_nr \in 0..(image_count(conns[c]) - 1) :
             LabelTile(c, image_nr, t.pos, t.size, label_value)
    \/ \E c \in 1..Len(conns) :
          \E image_nr \in 0..(image_count(conns[c]) - 1) : LabelCountForImage(c, image_nr)

SpecLabel == Init /\ [][NextLabel]_vars

\* ------------------------------------------------------------------ C9
\* the mapped label matrix of image image_nr of connector c
MappedLabels(c, image_nr) ==
    assign_slice_by_slice(conns[c].labelvalue_mapping,
        Disk[os_path_join(conns[c].label_path, conns[c].filenames[image_nr + 1].lbl)])

\* C9: for a labelled image and a position and size inside the label matrix,
\* get_label_tile returns the region [pos, pos + size) of all channels of the
\* mapped label matrix and does not raise.
C9_GetLabelTileReturnsRegion ==
    lastCall.op = "get_label_tile" =>
        /\ lastCall.raised = ""
        /\ lastCall.ret = Tile(MappedLabels(lastCall.conn, lastCall.image_nr),
                               lastCall.pos, lastCall.size)

\* ------------------------------------------------------------------ C10
TrueCount(boolmat) == Cardinality({i \in Idx3(boolmat.shape) : boolmat.data[i]})

WholeImage(call) ==
    /\ call.pos = <<0, 0, 0>>
    /\ call.size = Tail(label_matrix_dimensions(conns[call.conn], call.image_nr))

\* what label_count_for_image(image_nr) returns when called on c now
CountsNow(c, image_nr) == cached_label_count_for_image(caches, c, conns[c], image_nr).ret

\* what label_tile over the whole image returns when called on c now
WholeTileNow(c, image_nr, label_value) ==
    label_tile(caches, c, conns[c], image_nr, <<0, 0, 0>>,
               Tail(label_matrix_dimensions(conns[c], image_nr)), label_value).ret

\* C10: for a labelled image and a mapped label value v present in it, the
\* boolean tile of v over the whole image has label_count_for_image(i)[v] True
\* entries.
C10_TileCountEqualsLabelCount ==
    /\ (lastCall.op = "label_tile" /\ WholeImage(lastCall)) =>
          LET counts == CountsNow(lastCall.conn, lastCall.image_nr)
          IN /\ lastCall.raised = "" /\ counts.raised = "" /\ ~counts.none
             /\ lastCall.label_value \in DOMAIN counts.val =>
                   TrueCount(lastCall.ret) = counts.val[lastCall.label_value]
    /\ (lastCall.op = "label_count_for_image" /\ IsLabelled(lastCall.conn, lastCall.image_nr)) =>
          /\ lastCall.raised = "" /\ ~lastCall.none
          /\ \A v \in DOMAIN lastCall.ret :
                TrueCount(WholeTileNow(lastCall.conn, lastCall.image_nr, v).val) = lastCall.ret[v]

C10_Witness ==
    /\ lastCall.op = "label_tile"
    /\ WholeImage(lastCall)
    /\ IsSplitHalf(lastCall.conn)
    /\ lastCall.label_value \in DOMAIN CountsNow(lastCall.conn, lastCall.image_nr).val
    /\ TrueCount(lastCall.ret) = 2
    /\ CacheHas(caches.label_count_for_image, <<lastCall.conn, lastCall.image_nr>>)
    /\ \E i \in Idx3(lastCall.ret.shape) :
          /\ lastCall.ret.data[i]
          /\ \E ch \in {0, 1} : At(MappedLabels(lastCall.conn, lastCall.image_nr), <<ch>> \o i)
                                   \notin {0, lastCall.label_value}

\* ------------------------------------------------------------------ C11
\* the call breaks the contract of put_tile
Malformed(call) ==
    \/ Len(call.pos_zxy) # 3
    \/ Len(call.pixels.shape) # 3
    \/ conns[call.conn].savepath = None

\* C11: a put_tile call with a pos_zxy of other than 3 components, a pixel block
\* of other than 3 dimensions, or on a connector without savepath raises
\* ValueError, and the output files are exactly what they were before the call.
C11_MalformedPutTileRaises ==
    [][(lastCall'.op = "put_tile" /\ Malformed(lastCall')) =>
          /\ lastCall'.raised = "ValueError"
          /\ probmaps' = probmaps
    ]_vars

\* a well-formed block refused for the missing savepath, a probability map of
\* an earlier run lying on disk
C11_Witness ==
    /\ lastCall.op = "put_tile"
    /\ lastCall.raised = "ValueError"
    /\ Len(lastCall.pos_zxy) = 3
    /\ Len(lastCall.pixels.shape) = 3
    /\ conns[lastCall.conn].savepath = None
    /\ probmaps = OldProbmap

\* ------------------------------------------------------------------ C12
\* the capacity each decorated method is given
CacheCapacity ==
    [get_tile |-> TileCacheSize, get_label_tile |-> TileCacheSize,
     load_image |-> MatrixCacheSize, load_label_matrix |-> MatrixCacheSize,
     original_label_values_for_all_images |-> OriginalLabelsCacheSize,
     label_count_for_image |-> CountCacheSize]

\* the entries a cache holds for connector c, least recently used first
EntriesOf(cache, c) == SelectSeq(cache, LAMBDA e : e.key[1] = c)

KeysOf(cache, c) == {cache[k].key : k \in {j \in 1..Len(cache) : cache[j].key[1] = c}}

ReadRequests == {"get_tile", "load_image", "get_label_tile", "label_tile", "label_count_for_image"}

\* C12: a read request on one connector leaves the entries cached for every
\* other connector as they were, and drops an entry of its own connector only
\* when that connector alone fills the cache to its capacity.
C12_CachesOwnedPerConnector ==
    [][lastCall'.op \in ReadRequests =>
          \A m \in DOMAIN caches :
             /\ \A d \in (1..Len(conns)) \ {lastCall'.conn} :
                   EntriesOf(caches'[m], d) = EntriesOf(caches[m], d)
             /\ KeysOf(caches[m], lastCall'.conn) \ KeysOf(caches'[m], lastCall'.conn) # {} =>
                   Cardinality(KeysOf(caches[m], lastCall'.conn)) = CacheCapacity[m]
    ]_vars

====
